---------------------------- MODULE Spec2Model ----------------------------
(***************************************************************************)
(* A model of the Untitled UI tooling of this repository:                  *)
(*   - the component catalog scraper (src/scripts/scrape-untitled-ui.js),  *)
(*   - the catalog CLI helper (src/unnamed/part_000),                      *)
(*   - the sitemap serialize override documented in                        *)
(*     src/public/fonts/README.md.                                         *)
(* JavaScript strings are TLA+ strings; Len, \o and SubSeq act on them as  *)
(* on sequences of characters.                                             *)
(***************************************************************************)
EXTENDS Integers, Sequences, FiniteSets, TLC

VARIABLES
    pc,             \* scraper: position of the process in UntitledUIScraper.run
    queue,          \* scraper: names the for-of loop has not yet visited
    components,     \* scraper: this.components (Map name -> record)
    now,            \* the wall clock read by new Date()
    outDirs,        \* disk: output directories that exist
    componentFiles, \* disk: components/<name>.json, name -> record
    catalogFile,    \* disk: catalog.json
    typesFile,      \* disk: types.ts
    guideFile,      \* disk: README.md
    searchFile,     \* disk: search.ts
    faults,         \* number of I/O errors the file system has raised so far
    runs,           \* number of scraper processes started so far
    superseded,     \* disk: the catalog.json that the last write of it replaced
    trace,          \* scraper: the steps the current process has taken, in order
    argv,           \* CLI helper: process.argv.slice(2)
    cliPc,          \* CLI helper: "ready" before the process runs, "exited" after
    stdout,         \* CLI helper: lines written with console.log
    stderr,         \* CLI helper: lines written with console.error / by the runtime
    exitCode,       \* CLI helper: exit status of the process
    loadCount,      \* CLI helper: number of calls of loadCatalog
    rejectionMode,  \* CLI helper: what the runtime does with an unhandled rejection
    call            \* last call of a pure function: name, argument, result

scraperVars == <<pc, queue, components, now, outDirs, componentFiles,
                 catalogFile, typesFile, guideFile, searchFile, faults, runs, superseded,
                 trace>>
cliVars == <<argv, cliPc, stdout, stderr, exitCode, loadCount, rejectionMode>>
vars == <<scraperVars, cliVars, call>>

----------------------------------------------------------------------------
(* Bounds of the model                                                     *)

\* number of scraper processes run one after the other
MaxRuns == 2
\* number of I/O errors the file system raises over all runs
MaxFaults == 1
\* number of path segments appended to the site origin to form a URL
MaxSegments == 3

----------------------------------------------------------------------------
(* JavaScript string primitives                                            *)

UpperAlphabet == "ABCDEFGHIJKLMNOPQRSTUVWXYZ"
LowerAlphabet == "abcdefghijklmnopqrstuvwxyz"

CharAt(s, i) == IF i >= 1 /\ i <= Len(s) THEN SubSeq(s, i, i) ELSE ""

Slice(s, i) == IF i > Len(s) THEN "" ELSE SubSeq(s, i, Len(s))

MapChar(c, from, to) ==
    IF \E i \in 1..Len(from) : SubSeq(from, i, i) = c
    THEN LET i == CHOOSE j \in 1..Len(from) : SubSeq(from, j, j) = c
         IN  SubSeq(to, i, i)
    ELSE c

\* the characters of s mapped one by one (by halves, to keep the recursion
\* shallow)
RECURSIVE MapString(_, _, _)
MapString(s, from, to) ==
    IF Len(s) = 0 THEN ""
    ELSE IF Len(s) = 1 THEN MapChar(s, from, to)
    ELSE LET h == Len(s) \div 2
         IN  MapString(SubSeq(s, 1, h), from, to)
                \o MapString(SubSeq(s, h + 1, Len(s)), from, to)

\* String.prototype.toLowerCase, on the ASCII letters
ToLowerCase(s) == MapString(s, UpperAlphabet, LowerAlphabet)

\* String.prototype.toUpperCase, on the ASCII letters
ToUpperCase(s) == MapString(s, LowerAlphabet, UpperAlphabet)

\* String.prototype.includes
Includes(s, q) ==
    \E i \in 1..(Len(s) - Len(q) + 1) :
        IF q = "" THEN TRUE ELSE SubSeq(s, i, i + Len(q) - 1) = q

\* Array.prototype.includes on a sequence
ArrayIncludes(seq, x) == \E i \in 1..Len(seq) : seq[i] = x

Range(seq) == {seq[i] : i \in 1..Len(seq)}

\* A JavaScript object or Map with string keys: the list of its own
\* <<key, value>> entries in insertion order, the keys distinct.
Keys(obj) == [i \in 1..Len(obj) |-> obj[i][1]]

KeySet(obj) == {obj[i][1] : i \in 1..Len(obj)}

Values(obj) == [i \in 1..Len(obj) |-> obj[i][2]]

Has(obj, key) == key \in KeySet(obj)

Get(obj, key) == obj[CHOOSE i \in 1..Len(obj) : obj[i][1] = key][2]

\* Map.prototype.set: an existing key keeps its place
MapSet(obj, key, value) ==
    IF Has(obj, key)
    THEN [i \in 1..Len(obj) |-> IF obj[i][1] = key THEN <<key, value>> ELSE obj[i]]
    ELSE Append(obj, <<key, value>>)

----------------------------------------------------------------------------
(* The scraper: src/scripts/scrape-untitled-ui.js                          *)

\* the taxonomy as it would be with "badge" listed under two categories
COMPONENT_CATEGORIES_BadgeTwice == <<
    <<"buttons",      <<"button", "button-group", "split-button">> >>,
    <<"inputs",       <<"input", "textarea", "select", "checkbox", "radio", "switch", "file-upload">> >>,
    <<"avatars",      <<"avatar", "avatar-group">> >>,
    <<"navigation",   <<"breadcrumb", "pagination", "tabs", "navbar", "sidebar">> >>,
    <<"feedback",     <<"alert", "toast", "progress", "spinner", "badge">> >>,
    <<"overlays",     <<"modal", "popover", "tooltip", "dropdown", "dialog">> >>,
    <<"layout",       <<"card", "container", "divider", "stack">> >>,
    <<"data-display", <<"table", "list", "stat", "timeline", "carousel", "badge">> >>,
    <<"forms",        <<"form", "fieldset", "form-control", "validation">> >>
>>

\* The taxonomy, as the ordered list of [category, members] that
\* Object.entries(COMPONENT_CATEGORIES) yields.
COMPONENT_CATEGORIES == <<
    <<"buttons",      <<"button", "button-group", "split-button">> >>,
    <<"inputs",       <<"input", "textarea", "select", "checkbox", "radio", "switch", "file-upload">> >>,
    <<"avatars",      <<"avatar", "avatar-group">> >>,
    <<"navigation",   <<"breadcrumb", "pagination", "tabs", "navbar", "sidebar">> >>,
    <<"feedback",     <<"alert", "toast", "progress", "spinner", "badge">> >>,
    <<"overlays",     <<"modal", "popover", "tooltip", "dropdown", "dialog">> >>,
    <<"layout",       <<"card", "container", "divider", "stack">> >>,
    <<"data-display", <<"table", "list", "stat", "timeline", "carousel">> >>,
    <<"forms",        <<"form", "fieldset", "form-control", "validation">> >>
>>

CategoryNames == [i \in 1..Len(COMPONENT_CATEGORIES) |-> COMPONENT_CATEGORIES[i][1]]

baseUrl == "https://www.untitledui.com/react/components"

\* getCategoryForComponent as it would be if it compared names without
\* regard to case
getCategoryIgnoringCase(componentName) ==
    LET hits == {i \in 1..Len(COMPONENT_CATEGORIES) :
                    \E j \in 1..Len(COMPONENT_CATEGORIES[i][2]) :
                        ToLowerCase(COMPONENT_CATEGORIES[i][2][j]) = ToLowerCase(componentName)}
    IN  IF hits = {} THEN "misc"
        ELSE COMPONENT_CATEGORIES[CHOOSE i \in hits : \A j \in hits : i <= j][1]

\* getCategoryForComponent: the first category, in declaration order, whose
\* member list includes the name; "misc" when there is none.
getCategoryForComponent(componentName) ==
    LET hits == {i \in 1..Len(COMPONENT_CATEGORIES) :
                    ArrayIncludes(COMPONENT_CATEGORIES[i][2], componentName)}
    IN  IF hits = {} THEN "misc"
        ELSE COMPONENT_CATEGORIES[CHOOSE i \in hits : \A j \in hits : i <= j][1]

buttonVariants == <<"primary", "secondary", "tertiary", "destructive", "link">>
buttonProps == (<< <<"color", "string">>, <<"size", "sm | md | lg | xl">>,
                        <<"iconLeading", "ReactNode">>, <<"iconTrailing", "ReactNode">>,
                        <<"isLoading", "boolean">>, <<"isDisabled", "boolean">> >>)
inputVariants == <<"default", "invalid", "disabled", "with-icon", "with-dropdown">>
inputProps == (<< <<"size", "sm | md | lg">>, <<"isInvalid", "boolean">>,
                       <<"isDisabled", "boolean">>, <<"iconLeading", "ReactNode">>,
                       <<"iconTrailing", "ReactNode">> >>)

\* fetchComponentInfo as it would be if a field other than lastUpdated
\* carried the time of the fetch
fetchComponentInfoStamped(componentName, t) ==
    [ name          |-> componentName,
      description   |-> ToUpperCase(CharAt(componentName, 1)) \o Slice(componentName, 2)
                            \o " component from Untitled UI",
      category      |-> getCategoryForComponent(componentName),
      installation  |-> [cli |-> "npx untitledui@latest add " \o componentName,
                         manual |-> TRUE],
      variants      |-> IF componentName = "button" THEN buttonVariants
                        ELSE IF componentName = "input" THEN inputVariants
                        ELSE <<>>,
      props         |-> IF componentName = "button" THEN buttonProps
                        ELSE IF componentName = "input" THEN inputProps
                        ELSE <<>>,
      examples      |-> <<t>>,
      dependencies  |-> <<"react", "react-aria", "tailwindcss">>,
      documentation |-> baseUrl \o "/" \o componentName,
      lastUpdated   |-> t ]

\* fetchComponentInfo, with t the value new Date() reads
fetchComponentInfo(componentName, t) ==
    [ name          |-> componentName,
      description   |-> ToUpperCase(CharAt(componentName, 1)) \o Slice(componentName, 2)
                            \o " component from Untitled UI",
      category      |-> getCategoryForComponent(componentName),
      installation  |-> [cli |-> "npx untitledui@latest add " \o componentName,
                         manual |-> TRUE],
      variants      |-> IF componentName = "button" THEN buttonVariants
                        ELSE IF componentName = "input" THEN inputVariants
                        ELSE <<>>,
      props         |-> IF componentName = "button" THEN buttonProps
                        ELSE IF componentName = "input" THEN inputProps
                        ELSE <<>>,
      examples      |-> <<>>,
      dependencies  |-> <<"react", "react-aria", "tailwindcss">>,
      documentation |-> baseUrl \o "/" \o componentName,
      lastUpdated   |-> t ]

\* Array.prototype.flat (by halves, to keep the recursion shallow)
RECURSIVE Flatten(_)
Flatten(lists) ==
    IF Len(lists) = 0 THEN <<>>
    ELSE IF Len(lists) = 1 THEN lists[1]
    ELSE LET h == Len(lists) \div 2
         IN  Flatten(SubSeq(lists, 1, h)) \o Flatten(SubSeq(lists, h + 1, Len(lists)))

\* the iteration order of a Set filled from seq: first occurrences only
Dedupe(seq) ==
    LET first(i) == \A j \in 1..(i - 1) : seq[j] # seq[i]
        kept == SelectSeq([i \in 1..Len(seq) |-> i], first)
    IN  [k \in 1..Len(kept) |-> seq[kept[k]]]

\* allComponents as it would be if the loop visited the names last to first
allComponentsReversed ==
    LET names == Dedupe(Flatten([i \in 1..Len(COMPONENT_CATEGORIES) |->
                                    COMPONENT_CATEGORIES[i][2]]))
    IN  [k \in 1..Len(names) |-> names[Len(names) + 1 - k]]

\* allComponents: the Set built at the start of scrapeAllComponents, in its
\* iteration (insertion) order
allComponents ==
    Dedupe(Flatten([i \in 1..Len(COMPONENT_CATEGORIES) |-> COMPONENT_CATEGORIES[i][2]]))

\* generateCatalog as it would be if totalComponents counted the categories
\* of the taxonomy instead of the records of the store
BuildCatalogCountsCategories(store, t) ==
    [ metadata   |-> [ source          |-> "Untitled UI React Components",
                       url             |-> baseUrl,
                       scrapedAt       |-> t,
                       totalComponents |-> Len(COMPONENT_CATEGORIES),
                       categories      |-> CategoryNames ],
      categories |-> [i \in 1..Len(COMPONENT_CATEGORIES) |->
                        LET has(name) == Has(store, name)
                            kept == SelectSeq(COMPONENT_CATEGORIES[i][2], has)
                        IN  <<COMPONENT_CATEGORIES[i][1],
                              [j \in 1..Len(kept) |-> Get(store, kept[j])]>>],
      components |-> store ]

\* the catalog object generateCatalog builds from this.components at time t
BuildCatalog(store, t) ==
    [ metadata   |-> [ source          |-> "Untitled UI React Components",
                       url             |-> baseUrl,
                       scrapedAt       |-> t,
                       totalComponents |-> Len(store),
                       categories      |-> CategoryNames ],
      categories |-> [i \in 1..Len(COMPONENT_CATEGORIES) |->
                        LET has(name) == Has(store, name)
                            kept == SelectSeq(COMPONENT_CATEGORIES[i][2], has)
                        IN  <<COMPONENT_CATEGORIES[i][1],
                              [j \in 1..Len(kept) |-> Get(store, kept[j])]>>],
      components |-> store ]

\* what generateTypeDefinitions writes: the two literal unions of types.ts
TypeDefinitions ==
    [ ComponentCategory |-> CategoryNames, ComponentName |-> allComponents ]

\* what generateUsageGuide writes: the count, the url, one section per
\* category of the catalog with its name/description bullets, the timestamp
UsageGuide(catalog) ==
    [ total     |-> catalog.metadata.totalComponents,
      url       |-> catalog.metadata.url,
      sections  |-> [i \in 1..Len(catalog.categories) |->
                       <<catalog.categories[i][1],
                         [j \in 1..Len(catalog.categories[i][2]) |->
                            <<catalog.categories[i][2][j].name,
                              catalog.categories[i][2][j].description>>]>>],
      generated |-> catalog.metadata.scrapedAt ]

\* A file of the disk: absent, or present with its content. JSON.stringify
\* followed by JSON.parse gives back the strings, booleans, arrays and plain
\* objects the scraper writes, so a JSON file holds the value written.
\* A writeFile that rejects is taken to leave the file as it was.
NoFile == [kind |-> "absent"]
File(content) == [kind |-> "json", value |-> content]

outputDir == "src/lib/untitled-ui"
componentsDir == "src/lib/untitled-ui/components"

Running == pc \notin {"idle", "done", "failed"}

\* A step of the scraper process as the trace records it: <<kind, subject>>.
\*   "mkdir"   fs.mkdir of the directory has resolved
\*   "process" the line "Processing <name>..." was logged (line 96)
\*   "fetch"   fetchComponentInfo(name) has returned (line 98)
\*   "set"     this.components.set(name, ...) (line 99)
\*   "save"    the writeFile of saveComponentFile has resolved (line 100)
\*   "error"   the catch of the loop logged "Error processing <name>" (line 103)
\*   "write"   fs.writeFile of the named output file has resolved
\*   "exit"    run() logged "Scraping failed" and called process.exit(1)
Step(kind, subject) == <<kind, subject>>

\* new UntitledUIScraper() in a new process, then run() is entered
StartRun ==
    /\ ~Running
    /\ runs < MaxRuns
    /\ runs' = runs + 1
    /\ components' = <<>>
    /\ queue' = <<>>
    /\ pc' = "init"
    /\ trace' = <<>>
    /\ UNCHANGED <<cliVars, call>>
    /\ UNCHANGED <<now, outDirs, componentFiles, catalogFile, typesFile, guideFile,
                   searchFile, faults, superseded>>

\* init(): the two recursive mkdir calls succeed
InitOk ==
    /\ pc = "init"
    /\ outDirs' = outDirs \cup {outputDir, componentsDir}
    /\ pc' = "scrape"
    /\ queue' = allComponents
    /\ trace' = trace \o <<Step("mkdir", outputDir), Step("mkdir", componentsDir)>>
    /\ UNCHANGED <<cliVars, call>>
    /\ UNCHANGED <<components, now, componentFiles, catalogFile, typesFile,
                   guideFile, searchFile, faults, runs, superseded>>

\* init(): one of the two mkdir calls rejects; run() catches and exits 1
InitFail ==
    /\ pc = "init"
    /\ faults < MaxFaults
    /\ faults' = faults + 1
    /\ \/ /\ outDirs' = outDirs
          /\ trace' = trace \o <<Step("exit", "1")>>
       \/ /\ outDirs' = outDirs \cup {outputDir}
          /\ trace' = trace \o <<Step("mkdir", outputDir), Step("exit", "1")>>
    /\ pc' = "failed"
    /\ UNCHANGED <<cliVars, call>>
    /\ UNCHANGED <<queue, components, now, componentFiles, catalogFile,
                   typesFile, guideFile, searchFile, runs, superseded>>

\* one iteration of the loop of scrapeAllComponents, lines 95-101:
\* fetchComponentInfo, this.components.set, saveComponentFile, the delay
ProcessComponent ==
    /\ pc = "scrape"
    /\ queue # <<>>
    /\ LET componentName == Head(queue)
           componentData == fetchComponentInfo(componentName, now)
       IN  /\ components' = MapSet(components, componentName, componentData)
           /\ componentFiles' = MapSet(componentFiles, componentName, componentData)
           /\ trace' = trace \o <<Step("process", componentName),
                                   Step("fetch", componentName),
                                   Step("set", componentName),
                                   Step("save", componentName)>>
    /\ now' = now + 1
    /\ queue' = Tail(queue)
    /\ UNCHANGED <<cliVars, call>>
    /\ UNCHANGED <<pc, outDirs, catalogFile, typesFile, guideFile, searchFile,
                   faults, runs, superseded>>

\* one iteration, lines 95-104, in which the writeFile of saveComponentFile
\* rejects: the record is already in this.components, the catch logs the
\* error and the loop goes on with the next name
ProcessComponentSaveFails ==
    /\ pc = "scrape"
    /\ queue # <<>>
    /\ faults < MaxFaults
    /\ faults' = faults + 1
    /\ components' = MapSet(components, Head(queue), fetchComponentInfo(Head(queue), now))
    /\ trace' = trace \o <<Step("process", Head(queue)),
                            Step("fetch", Head(queue)),
                            Step("set", Head(queue)),
                            Step("error", Head(queue))>>
    /\ now' = now + 1
    /\ queue' = Tail(queue)
    /\ UNCHANGED <<cliVars, call>>
    /\ UNCHANGED <<pc, outDirs, componentFiles, catalogFile, typesFile, guideFile,
                   searchFile, runs, superseded>>

\* the loop of scrapeAllComponents ends, run() goes on to generateCatalog
FinishScrape ==
    /\ pc = "scrape"
    /\ queue = <<>>
    /\ pc' = "catalog"
    /\ UNCHANGED <<cliVars, call>>
    /\ UNCHANGED <<queue, components, now, outDirs, componentFiles,
                   catalogFile, typesFile, guideFile, searchFile, faults, runs, superseded,
                   trace>>

\* generateCatalog, lines 116-136: build the catalog and write catalog.json
WriteCatalogOk ==
    /\ pc = "catalog"
    /\ catalogFile' = File(BuildCatalog(components, now))
    /\ superseded' = catalogFile
    /\ now' = now + 1
    /\ pc' = "types"
    /\ trace' = Append(trace, Step("write", "catalog.json"))
    /\ UNCHANGED <<cliVars, call>>
    /\ UNCHANGED <<queue, components, outDirs, componentFiles, typesFile,
                   guideFile, searchFile, faults, runs>>

\* a write of generateCatalog or of one of its three generators rejects;
\* run() catches and exits 1
WriteFail ==
    /\ pc \in {"catalog", "types", "guide", "search"}
    /\ faults < MaxFaults
    /\ faults' = faults + 1
    /\ now' = IF pc = "catalog" THEN now + 1 ELSE now
    /\ pc' = "failed"
    /\ trace' = Append(trace, Step("exit", "1"))
    /\ UNCHANGED <<cliVars, call>>
    /\ UNCHANGED <<queue, components, outDirs, componentFiles, catalogFile,
                   typesFile, guideFile, searchFile, runs, superseded>>

\* generateTypeDefinitions
WriteTypes ==
    /\ pc = "types"
    /\ typesFile' = File(TypeDefinitions)
    /\ pc' = "guide"
    /\ trace' = Append(trace, Step("write", "types.ts"))
    /\ UNCHANGED <<cliVars, call>>
    /\ UNCHANGED <<queue, components, now, outDirs, componentFiles,
                   catalogFile, guideFile, searchFile, faults, runs, superseded>>

\* generateUsageGuide, of the catalog just built
WriteGuide ==
    /\ pc = "guide"
    /\ guideFile' = File(UsageGuide(catalogFile.value))
    /\ pc' = "search"
    /\ trace' = Append(trace, Step("write", "README.md"))
    /\ UNCHANGED <<cliVars, call>>
    /\ UNCHANGED <<queue, components, now, outDirs, componentFiles,
                   catalogFile, typesFile, searchFile, faults, runs, superseded>>

\* generateSearchUtility, then run() reports success
WriteSearch ==
    /\ pc = "search"
    /\ searchFile' = File("UntitledUISearch")
    /\ pc' = "done"
    /\ trace' = Append(trace, Step("write", "search.ts"))
    /\ UNCHANGED <<cliVars, call>>
    /\ UNCHANGED <<queue, components, now, outDirs, componentFiles,
                   catalogFile, typesFile, guideFile, faults, runs, superseded>>

ScraperNext ==
    \/ StartRun
    \/ InitOk
    \/ InitFail
    \/ ProcessComponent
    \/ ProcessComponentSaveFails
    \/ FinishScrape
    \/ WriteCatalogOk
    \/ WriteFail
    \/ WriteTypes
    \/ WriteGuide
    \/ WriteSearch

----------------------------------------------------------------------------
(* The CLI helper: src/unnamed/part_000                                    *)

\* catalog.json holds bytes JSON.parse rejects
Corrupt == [kind |-> "corrupt"]

\* Array.prototype.join
RECURSIVE Join(_, _)
Join(seq, sep) ==
    IF Len(seq) = 0 THEN ""
    ELSE IF Len(seq) = 1 THEN seq[1]
    ELSE LET h == Len(seq) \div 2
         IN  Join(SubSeq(seq, 1, h), sep) \o sep \o Join(SubSeq(seq, h + 1, Len(seq)), sep)

\* The properties every object made by JSON.parse inherits from
\* Object.prototype: obj[key] finds them when obj has no own property key.
ObjectPrototypeKeys ==
    { "constructor", "toString", "toLocaleString", "valueOf", "hasOwnProperty",
      "isPrototypeOf", "propertyIsEnumerable", "__proto__", "__defineGetter__",
      "__defineSetter__", "__lookupGetter__", "__lookupSetter__" }

\* obj[key] on an object made by JSON.parse: the own property, else the
\* property inherited from Object.prototype, else undefined
Lookup(obj, key) ==
    IF Has(obj, key) THEN [t |-> "own", v |-> Get(obj, key)]
    ELSE IF key \in ObjectPrototypeKeys THEN [t |-> "inherited", key |-> key]
    ELSE [t |-> "undefined"]

\* the .name of an inherited value: the functions of Object.prototype carry
\* their name, Object.prototype itself (__proto__) has none
InheritedName(key) ==
    IF key = "constructor" THEN "Object"
    ELSE IF key = "__proto__" THEN "undefined"
    ELSE key

\* The outcomes of a process: it ran to the end of run(); loadCatalog called
\* process.exit(1); a TypeError left run() as an unhandled rejection, which
\* the runtime reports and, by its version and flags, turns into exit status
\* 1 ("throw") or lets the process end with 0 ("warn").
Returned(out, loads) ==
    [stdout |-> out, stderr |-> <<>>, exitCode |-> 0, loadCount |-> loads]

\* loadCatalog as it would be with the guidance printed and exit status 0
LoadFailedExitsZero ==
    [stdout |-> <<>>,
     stderr |-> <<[k |-> "CouldNotLoadCatalog", hint |-> "Run npm run scrape-ui first."]>>,
     exitCode |-> 0, loadCount |-> 1]

LoadFailed ==
    [stdout |-> <<>>,
     stderr |-> <<[k |-> "CouldNotLoadCatalog", hint |-> "Run npm run scrape-ui first."]>>,
     exitCode |-> 1, loadCount |-> 1]

Threw(out, mode) ==
    [stdout |-> out, stderr |-> <<[k |-> "TypeError"]>>,
     exitCode |-> IF mode = "throw" THEN 1 ELSE 0, loadCount |-> 1]

\* loadCatalog: readFile and JSON.parse succeed exactly on a JSON file
CanLoad(file) == file.kind = "json"

\* the filter predicate as it would be without the test of the variants
SearchMatchesNoVariants(component, lowerQuery) ==
    \/ Includes(ToLowerCase(component.name), lowerQuery)
    \/ Includes(ToLowerCase(component.description), lowerQuery)
    \/ Includes(ToLowerCase(component.category), lowerQuery)

\* the filter predicate of search, lines 34-39
SearchMatches(component, lowerQuery) ==
    \/ Includes(ToLowerCase(component.name), lowerQuery)
    \/ Includes(ToLowerCase(component.description), lowerQuery)
    \/ Includes(ToLowerCase(component.category), lowerQuery)
    \/ \E i \in 1..Len(component.variants) :
          Includes(ToLowerCase(component.variants[i]), lowerQuery)

\* search(query)
search(query, file) ==
    IF ~CanLoad(file) THEN LoadFailed
    ELSE
    LET catalog == file.value
        lowerQuery == ToLowerCase(query)
        hit(component) == SearchMatches(component, lowerQuery)
        results == SelectSeq(Values(catalog.components), hit)
        entry(comp) ==
            << [k |-> "Match", name |-> comp.name, category |-> comp.category],
               [k |-> "Description", text |-> comp.description],
               [k |-> "Install", text |-> comp.installation.cli],
               [k |-> "Variants", text |-> Join(comp.variants, ", ")],
               [k |-> "Docs", text |-> comp.documentation] >>
    IN  IF Len(results) = 0
        THEN Returned(<<[k |-> "NoComponentsFound", query |-> query]>>, 1)
        ELSE Returned(<<[k |-> "Found", count |-> Len(results), query |-> query]>>
                        \o Flatten([i \in 1..Len(results) |-> entry(results[i])]), 1)

\* list(category); given is FALSE when the argument is undefined
list(given, category, file, mode) ==
    IF ~CanLoad(file) THEN LoadFailed
    ELSE
    LET catalog == file.value
        categoryComponents == Lookup(catalog.categories, category)
        one(comp) ==
            << [k |-> "Component", name |-> comp.name, text |-> comp.description],
               [k |-> "Install", text |-> comp.installation.cli] >>
        all(e) ==
            << [k |-> "CategoryCount", name |-> ToUpperCase(e[1]), count |-> Len(e[2])] >>
            \o [j \in 1..Len(e[2]) |-> [k |-> "Member", name |-> e[2][j].name]]
            \o << [k |-> "Blank"] >>
    IN  IF given /\ category # ""
        THEN IF categoryComponents.t = "undefined"
             THEN Returned(<< [k |-> "CategoryNotFound", name |-> category],
                              [k |-> "AvailableCategories",
                               text |-> Join(Keys(catalog.categories), ", ")] >>, 1)
             ELSE IF categoryComponents.t = "inherited"
             THEN Threw(<< [k |-> "CategoryHeader", name |-> ToUpperCase(category)] >>, mode)
             ELSE Returned(<< [k |-> "CategoryHeader", name |-> ToUpperCase(category)] >>
                    \o Flatten([j \in 1..Len(categoryComponents.v) |->
                                  one(categoryComponents.v[j])]), 1)
        ELSE Returned(<< [k |-> "AllCategories",
                          total |-> catalog.metadata.totalComponents] >>
                \o Flatten([i \in 1..Len(catalog.categories) |->
                              all(catalog.categories[i])]), 1)

\* install(componentName)
install(componentName, file, mode) ==
    IF ~CanLoad(file) THEN LoadFailed
    ELSE
    LET catalog == file.value
        component == Lookup(catalog.components, componentName)
    IN  IF component.t = "undefined"
        THEN Returned(<< [k |-> "ComponentNotFound", name |-> componentName],
                         [k |-> "UseSearchHint"] >>, 1)
        ELSE IF component.t = "inherited"
        THEN Threw(<< [k |-> "Installing", name |-> componentName] >>, mode)
        ELSE Returned(<< [k |-> "Installing", name |-> componentName],
                         [k |-> "Command", text |-> component.v.installation.cli],
                         [k |-> "ComponentInfo"],
                         [k |-> "Description", text |-> component.v.description],
                         [k |-> "Category", text |-> component.v.category],
                         [k |-> "Variants", text |-> Join(component.v.variants, ", ")],
                         [k |-> "Dependencies", text |-> Join(component.v.dependencies, ", ")],
                         [k |-> "Documentation", text |-> component.v.documentation] >>, 1)

\* info(componentName)
info(componentName, file, mode) ==
    IF ~CanLoad(file) THEN LoadFailed
    ELSE
    LET catalog == file.value
        component == Lookup(catalog.components, componentName)
    IN  IF component.t = "undefined"
        THEN Returned(<< [k |-> "ComponentNotFound", name |-> componentName] >>, 1)
        ELSE IF component.t = "inherited"
        THEN IF componentName = "__proto__"
             THEN Threw(<<>>, mode)
             ELSE Threw(<< [k |-> "InfoHeader", name |-> ToUpperCase(InheritedName(componentName))],
                           [k |-> "Description", text |-> "undefined"],
                           [k |-> "Category", text |-> "undefined"] >>, mode)
        ELSE LET c == component.v
             IN  Returned(
                   << [k |-> "InfoHeader", name |-> ToUpperCase(c.name)],
                      [k |-> "Description", text |-> c.description],
                      [k |-> "Category", text |-> c.category],
                      [k |-> "Install", text |-> c.installation.cli],
                      [k |-> "Documentation", text |-> c.documentation],
                      [k |-> "Dependencies", text |-> Join(c.dependencies, ", ")] >>
                   \o (IF Len(c.variants) > 0
                       THEN << [k |-> "VariantsHeader"] >>
                            \o [i \in 1..Len(c.variants) |->
                                  [k |-> "Variant", text |-> c.variants[i]]]
                       ELSE <<>>)
                   \o (IF Len(c.props) > 0
                       THEN << [k |-> "PropsHeader"] >>
                            \o [i \in 1..Len(c.props) |->
                                  [k |-> "Prop", name |-> c.props[i][1], text |-> c.props[i][2]]]
                       ELSE <<>>), 1)

\* the missing-argument branch as it would be if it ended the process with
\* exit status 1
usageErrorExitsOne(what, command) ==
    [stdout |-> << [k |-> "PleaseProvide", what |-> what],
                   [k |-> "Usage", command |-> command] >>,
     stderr |-> <<>>, exitCode |-> 1, loadCount |-> 0]

\* the missing-argument branch of run(): two lines, then return
usageError(what, command) ==
    Returned(<< [k |-> "PleaseProvide", what |-> what],
                [k |-> "Usage", command |-> command] >>, 0)

\* showHelp
showHelp == Returned(<< [k |-> "Help"] >>, 0)

\* !args[1]: the argument is undefined or the empty string
Missing(args) == Len(args) < 2 \/ args[2] = ""

\* run(): the dispatch on args[0]
run(args, file, mode) ==
    LET command == IF Len(args) >= 1 THEN args[1] ELSE "undefined"
        given == Len(args) >= 1
    IN  IF given /\ command = "search"
        THEN IF Missing(args)
             THEN usageError("search query", "search")
             ELSE search(args[2], file)
        ELSE IF given /\ command = "list"
        THEN list(Len(args) >= 2, IF Len(args) >= 2 THEN args[2] ELSE "", file, mode)
        ELSE IF given /\ command = "install"
        THEN IF Missing(args)
             THEN usageError("component name", "install")
             ELSE install(args[2], file, mode)
        ELSE IF given /\ command = "info"
        THEN IF Missing(args)
             THEN usageError("component name", "info")
             ELSE info(args[2], file, mode)
        ELSE showHelp

\* the command lines tried: no argument, a command alone, a command and one
\* argument (run() reads no further argument)
Commands == {"search", "list", "install", "info", "help", "bogus", ""}

SecondArgs ==
    { "button", "input", "tabs", "Date-Picker", "does-not-exist",
      "buttons", "inputs", "Inputs", "nonexistent-category",
      "but", "BUT", "PRIMARY", "with-", "untitled ui", "UNTITLED",
      "zzz-no-match", "range", "popup",
      "constructor", "__proto__", "toString", "hasOwnProperty", "" }

Argvs ==
    {<<>>} \cup {<<c>> : c \in Commands}
           \cup {<<c, a>> : c \in Commands, a \in SecondArgs}

RejectionModes == {"throw", "warn"}

\* one process of the CLI helper, from start to exit
InvokeCLI ==
    /\ cliPc = "ready"
    /\ \E args \in Argvs :
         LET r == run(args, catalogFile, rejectionMode)
         IN  /\ argv' = args
             /\ stdout' = r.stdout
             /\ stderr' = r.stderr
             /\ exitCode' = r.exitCode
             /\ loadCount' = r.loadCount
    /\ cliPc' = "exited"
    /\ UNCHANGED <<scraperVars, rejectionMode, call>>

----------------------------------------------------------------------------
(* The sitemap override: src/public/fonts/README.md, lines 106-137         *)

siteRoot == "https://nextworkmarketing.com/"

customPages ==
    { "https://nextworkmarketing.com/landing/special-offer",
      "https://nextworkmarketing.com/demo" }

\* the item the sitemap integration hands to serialize: the url with the
\* configured changefreq and priority; priorities are counted in tenths
SitemapItem(url) == [url |-> url, changefreq |-> "weekly", priority |-> 7]

\* serialize as it would be with the "/blog/" branch tested first
serializeBlogFirst(item) ==
    IF Includes(item.url, "/blog/")
    THEN [item EXCEPT !.priority = 8, !.changefreq = "weekly"]
    ELSE IF Includes(item.url, "/projects/")
    THEN [item EXCEPT !.priority = 9, !.changefreq = "weekly"]
    ELSE IF item.url = siteRoot
    THEN [item EXCEPT !.priority = 10, !.changefreq = "daily"]
    ELSE IF Includes(item.url, "/about") \/ Includes(item.url, "/careers")
    THEN [item EXCEPT !.priority = 6, !.changefreq = "monthly"]
    ELSE IF Includes(item.url, "/privacy") \/ Includes(item.url, "/terms")
    THEN [item EXCEPT !.priority = 3, !.changefreq = "yearly"]
    ELSE item

\* serialize(item)
serialize(item) ==
    IF Includes(item.url, "/projects/")
    THEN [item EXCEPT !.priority = 9, !.changefreq = "weekly"]
    ELSE IF Includes(item.url, "/blog/")
    THEN [item EXCEPT !.priority = 8, !.changefreq = "weekly"]
    ELSE IF item.url = siteRoot
    THEN [item EXCEPT !.priority = 10, !.changefreq = "daily"]
    ELSE IF Includes(item.url, "/about") \/ Includes(item.url, "/careers")
    THEN [item EXCEPT !.priority = 6, !.changefreq = "monthly"]
    ELSE IF Includes(item.url, "/privacy") \/ Includes(item.url, "/terms")
    THEN [item EXCEPT !.priority = 3, !.changefreq = "yearly"]
    ELSE item

\* filter(page)
SitemapFilter(page) == ~Includes(page, "/admin/") /\ ~Includes(page, "/internal/")

Segments ==
    { "/", "/projects/", "/blog/", "/about", "/careers", "/privacy", "/terms",
      "/pricing", "/admin/" }

\* the page urls tried: the origin followed by up to MaxSegments segments,
\* and the custom pages
Urls ==
    { "https://nextworkmarketing.com" \o Join(path, "") :
        path \in UNION {[1..n -> Segments] : n \in 0..MaxSegments} }
    \cup customPages

\* the names getCategoryForComponent is tried on: the taxonomy's names, the
\* same capitalised, the category names, and names of no list
NameInputs ==
    Range(allComponents)
    \cup {ToUpperCase(CharAt(n, 1)) \o Slice(n, 2) : n \in Range(allComponents)}
    \cup {n \o "s" : n \in Range(allComponents)}
    \cup Range(CategoryNames)
    \cup {"", "misc", "nonexistent", "constructor", "__proto__"}

\* the calls tried, before they are made: the integration serializes the
\* pages its filter keeps
PendingCalls ==
    { [fn |-> "getCategoryForComponent", arg |-> name, done |-> FALSE, result |-> ""] :
        name \in NameInputs }
    \cup
    { [fn |-> "serialize", arg |-> SitemapItem(url), done |-> FALSE,
       result |-> SitemapItem(url)] : url \in {u \in Urls : SitemapFilter(u)} }

CallGetCategory ==
    /\ call.fn = "getCategoryForComponent"
    /\ ~call.done
    /\ call' = [call EXCEPT !.done = TRUE, !.result = getCategoryForComponent(call.arg)]
    /\ UNCHANGED <<scraperVars, cliVars>>

CallSerialize ==
    /\ call.fn = "serialize"
    /\ ~call.done
    /\ call' = [call EXCEPT !.done = TRUE, !.result = serialize(call.arg)]
    /\ UNCHANGED <<scraperVars, cliVars>>

----------------------------------------------------------------------------
(* Initial states and specifications                                       *)

\* the store a scraper run builds when its clock reads t at the first fetch:
\* one entry per name of allComponents, fetched at consecutive readings
ScrapeStore(t) ==
    [i \in 1..Len(allComponents) |->
        <<allComponents[i], fetchComponentInfo(allComponents[i], t + i - 1)>>]

\* the catalog such a run writes
ScrapedCatalog(t) == BuildCatalog(ScrapeStore(t), t + Len(allComponents))

\* a hand-made catalog of the documented shape, its strings in mixed case
SampleCatalog ==
    LET picker == [ name          |-> "Date-Picker",
                    description   |-> "Calendar POPUP for dates",
                    category      |-> "Inputs",
                    installation  |-> [cli |-> "npx untitledui@latest add Date-Picker",
                                       manual |-> TRUE],
                    variants      |-> <<"Range", "single">>,
                    props         |-> << <<"mode", "range | single">> >>,
                    examples      |-> <<>>,
                    dependencies  |-> <<"react">>,
                    documentation |-> baseUrl \o "/Date-Picker",
                    lastUpdated   |-> 0 ]
        tabs   == [ name          |-> "tabs",
                    description   |-> "Tabs component",
                    category      |-> "navigation",
                    installation  |-> [cli |-> "npx untitledui@latest add tabs",
                                       manual |-> TRUE],
                    variants      |-> <<>>,
                    props         |-> <<>>,
                    examples      |-> <<>>,
                    dependencies  |-> <<"react">>,
                    documentation |-> baseUrl \o "/tabs",
                    lastUpdated   |-> 0 ]
    IN  [ metadata   |-> [ source          |-> "Untitled UI React Components",
                           url             |-> baseUrl,
                           scrapedAt       |-> 0,
                           totalComponents |-> 2,
                           categories      |-> <<"Inputs", "navigation">> ],
          categories |-> << <<"Inputs", <<picker>> >>, <<"navigation", <<tabs>> >> >>,
          components |-> << <<"Date-Picker", picker>>, <<"tabs", tabs>> >> ]

ScraperIdle ==
    /\ pc = "idle"
    /\ queue = <<>>
    /\ components = <<>>
    /\ faults = 0
    /\ runs = 0
    /\ superseded = NoFile
    /\ trace = <<>>

CliReady ==
    /\ argv = <<>>
    /\ cliPc = "ready"
    /\ stdout = <<>>
    /\ stderr = <<>>
    /\ exitCode = 0
    /\ loadCount = 0

CleanDisk ==
    /\ outDirs = {}
    /\ componentFiles = <<>>
    /\ catalogFile = NoFile
    /\ typesFile = NoFile
    /\ guideFile = NoFile
    /\ searchFile = NoFile

\* the disk a scraper run without I/O error leaves
ScrapedDisk ==
    /\ outDirs = {outputDir, componentsDir}
    /\ componentFiles = ScrapeStore(0)
    /\ catalogFile = File(ScrapedCatalog(0))
    /\ typesFile = File(TypeDefinitions)
    /\ guideFile = File(UsageGuide(ScrapedCatalog(0)))
    /\ searchFile = File("UntitledUISearch")

\* a disk on which catalog.json was put by hand
HandDisk(file) ==
    /\ outDirs = {outputDir}
    /\ componentFiles = <<>>
    /\ catalogFile = file
    /\ typesFile = NoFile
    /\ guideFile = NoFile
    /\ searchFile = NoFile

\* The scraper: runs of the process one after the other, from a clean disk
Init ==
    /\ ScraperIdle
    /\ now = 0
    /\ CleanDisk
    /\ CliReady
    /\ rejectionMode = "throw"
    /\ call = [fn |-> "none", done |-> TRUE]

Next == ScraperNext

Spec == Init /\ [][Next]_vars

\* The CLI helper: one process, on each of the disks it can find
InitCLI ==
    /\ ScraperIdle
    /\ \/ CleanDisk /\ now = 0
       \/ ScrapedDisk /\ now = Len(allComponents) + 1
       \/ HandDisk(Corrupt) /\ now = 0
       \/ HandDisk(File(SampleCatalog)) /\ now = 0
    /\ CliReady
    /\ rejectionMode \in RejectionModes
    /\ call = [fn |-> "none", done |-> TRUE]

NextCLI == InvokeCLI

SpecCLI == InitCLI /\ [][NextCLI]_vars

\* The pure functions, called on each input
InitPure ==
    /\ ScraperIdle
    /\ now = 0
    /\ CleanDisk
    /\ CliReady
    /\ rejectionMode = "throw"
    /\ call \in PendingCalls

NextPure == CallGetCategory \/ CallSerialize

SpecPure == InitPure /\ [][NextPure]_vars

----------------------------------------------------------------------------
(* Properties of the CLI helper, under SpecCLI                             *)

Exited == cliPc = "exited"

CatalogLoadable == catalogFile.kind = "json"

\* the command line reaches an operation that needs the catalog
ReachesOperation ==
    /\ Len(argv) >= 1
    /\ \/ argv[1] = "list"
       \/ argv[1] \in {"search", "install", "info"} /\ Len(argv) >= 2 /\ argv[2] # ""

\* the command line is help, an unknown command, or empty
HelpPath == Len(argv) = 0 \/ argv[1] \notin {"search", "list", "install", "info"}

Kinds(lines) == {lines[i].k : i \in 1..Len(lines)}

\* the lines that only an operation on a loaded catalog prints
OperationKinds ==
    { "Match", "Found", "NoComponentsFound", "Description", "Install", "Variants",
      "Docs", "Component", "CategoryCount", "Member", "Blank", "CategoryNotFound",
      "AvailableCategories", "CategoryHeader", "AllCategories", "ComponentNotFound",
      "UseSearchHint", "Installing", "Command", "ComponentInfo", "Category",
      "Dependencies", "Documentation", "InfoHeader", "VariantsHeader", "Variant",
      "PropsHeader", "Prop" }

\* the lines that show details of a component
DetailKinds ==
    { "Installing", "Command", "ComponentInfo", "Description", "Category", "Variants",
      "Dependencies", "Documentation", "InfoHeader", "Install", "VariantsHeader",
      "Variant", "PropsHeader", "Prop" }

\* C1: when catalog.json is absent or unparseable, every invocation that
\* reaches search, list, install or info prints the run-the-scraper-first
\* guidance, prints no operation output and exits with status 1; help, an
\* unknown command and an empty command line never load the catalog and exit
\* with status 0, whatever the catalog file is.
C1_CatalogLoadFailure ==
    Exited =>
      /\ (ReachesOperation /\ ~CatalogLoadable) =>
            /\ Kinds(stderr) = {"CouldNotLoadCatalog"}
            /\ Kinds(stdout) \cap OperationKinds = {}
            /\ exitCode = 1
      /\ HelpPath =>
            /\ loadCount = 0
            /\ exitCode = 0
            /\ Kinds(stdout) = {"Help"}

C1_Witness ==
    /\ Exited
    /\ argv = <<"search", "but">>
    /\ catalogFile = Corrupt
    /\ exitCode = 1
    /\ loadCount = 1

\* C2: with a loaded catalog, install(name) and info(name) of a name that
\* is no key of catalog.components report not-found, print no component
\* details, raise no error and the process exits with status 0.
C2_UnknownNameNotFound ==
    ( /\ Exited
      /\ CatalogLoadable
      /\ Len(argv) >= 2
      /\ argv[1] \in {"install", "info"}
      /\ argv[2] # ""
      /\ ~Has(catalogFile.value.components, argv[2]) )
    => /\ "ComponentNotFound" \in Kinds(stdout)
       /\ Kinds(stdout) \cap DetailKinds = {}
       /\ stderr = <<>>
       /\ exitCode = 0

\* C3: with a loaded catalog, list(category) of a non-empty category that is
\* no key of catalog.categories prints the not-found message followed by the
\* valid category names, no component entry, throws nothing and the process
\* exits with status 0.
C3_UnknownCategoryNotFound ==
    ( /\ Exited
      /\ CatalogLoadable
      /\ Len(argv) >= 2
      /\ argv[1] = "list"
      /\ argv[2] # ""
      /\ ~Has(catalogFile.value.categories, argv[2]) )
    => /\ stdout = << [k |-> "CategoryNotFound", name |-> argv[2]],
                      [k |-> "AvailableCategories",
                       text |-> Join(Keys(catalogFile.value.categories), ", ")] >>
       /\ stderr = <<>>
       /\ exitCode = 0

\* C4: search, install or info without a second argument prints the usage
\* error of that command, runs no operation, does not load the catalog and
\* exits with status 0, also when catalog.json is absent or unparseable.
C4_MissingArgument ==
    ( /\ Exited
      /\ Len(argv) = 1
      /\ argv[1] \in {"search", "install", "info"} )
    => /\ Len(stdout) = 2
       /\ stdout[1].k = "PleaseProvide"
       /\ stdout[1].what = (IF argv[1] = "search" THEN "search query" ELSE "component name")
       /\ stdout[2] = [k |-> "Usage", command |-> argv[1]]
       /\ stderr = <<>>
       /\ loadCount = 0
       /\ exitCode = 0

C4_Witness ==
    /\ Exited
    /\ argv = <<"install">>
    /\ catalogFile = NoFile
    /\ loadCount = 0
    /\ exitCode = 0
    /\ Kinds(stdout) = {"PleaseProvide", "Usage"}

\* s has q as a substring: s = u \o q \o v for some u and v
IsSubstring(q, s) ==
    \E i \in 0..Len(s) : \E j \in i..Len(s) : SubSeq(s, i + 1, j) = q

\* the components of the catalog that the claimed rule selects for a query
ClaimedMatches(catalog, query) ==
    LET q == ToLowerCase(query)
    IN  { c \in Range(Values(catalog.components)) :
            \/ IsSubstring(q, ToLowerCase(c.name))
            \/ IsSubstring(q, ToLowerCase(c.description))
            \/ IsSubstring(q, ToLowerCase(c.category))
            \/ \E v \in Range(c.variants) : IsSubstring(q, ToLowerCase(v)) }

Lines(kind) == SelectSeq(stdout, LAMBDA l : l.k = kind)

\* C6: for a loaded catalog and a non-empty query, the components search
\* reports are exactly those for which the lower-cased query is a substring
\* of the lower-cased name, description, category or of a variant; when
\* there is none, search prints the no-components-found message and returns
\* without error.
C6_SearchMatching ==
    ( /\ Exited
      /\ CatalogLoadable
      /\ Len(argv) >= 2
      /\ argv[1] = "search"
      /\ argv[2] # "" )
    => LET expected == ClaimedMatches(catalogFile.value, argv[2])
       IN  /\ {<<l.name, l.category>> : l \in Range(Lines("Match"))}
                = {<<c.name, c.category>> : c \in expected}
           /\ Len(Lines("Match")) = Cardinality(expected)
           /\ stderr = <<>>
           /\ exitCode = 0
           /\ expected = {} =>
                 stdout = << [k |-> "NoComponentsFound", query |-> argv[2]] >>
           /\ expected # {} =>
                 stdout[1] = [k |-> "Found", count |-> Cardinality(expected),
                              query |-> argv[2]]

\* a query in upper case that only a variant of "button" contains
C6_Witness ==
    /\ Exited
    /\ argv = <<"search", "PRIMARY">>
    /\ catalogFile = File(ScrapedCatalog(0))
    /\ {l.name : l \in Range(Lines("Match"))} = {"button"}

\* the sum of a sequence of numbers (by halves)
RECURSIVE Sum(_)
Sum(seq) ==
    IF Len(seq) = 0 THEN 0
    ELSE IF Len(seq) = 1 THEN seq[1]
    ELSE LET h == Len(seq) \div 2
         IN  Sum(SubSeq(seq, 1, h)) + Sum(SubSeq(seq, h + 1, Len(seq)))

\* C7: for a catalog written by a scraper run, list() without argument
\* prints every category of the catalog with its member count, the counts
\* sum to metadata.totalComponents, and every stored component is listed
\* under exactly one category.
C7_ListTotals ==
    ( /\ Exited
      /\ catalogFile = File(ScrapedCatalog(0))
      /\ Len(argv) >= 1
      /\ argv[1] = "list"
      /\ (Len(argv) = 1 \/ argv[2] = "") )
    => LET catalog == catalogFile.value
           headers == Lines("CategoryCount")
           members == Lines("Member")
       IN  /\ stdout[1] = [k |-> "AllCategories",
                           total |-> catalog.metadata.totalComponents]
           /\ [i \in 1..Len(headers) |-> headers[i].name]
                = [i \in 1..Len(catalog.categories) |->
                     ToUpperCase(catalog.categories[i][1])]
           /\ \A i \in 1..Len(headers) :
                 headers[i].count = Len(catalog.categories[i][2])
           /\ Sum([i \in 1..Len(headers) |-> headers[i].count])
                = catalog.metadata.totalComponents
           /\ \A name \in KeySet(catalog.components) :
                 Cardinality({i \in 1..Len(members) : members[i].name = name}) = 1
           /\ exitCode = 0

C7_Witness ==
    /\ Exited
    /\ argv = <<"list">>
    /\ catalogFile = File(ScrapedCatalog(0))
    /\ Len(Lines("CategoryCount")) = Len(COMPONENT_CATEGORIES)
    /\ Len(Lines("Member")) = Len(allComponents)

----------------------------------------------------------------------------
(* Properties of the scraper, under Spec                                   *)

\* every catalog.json a run writes is the catalog of a run without I/O error
\* that started its fetches at some clock reading
WrittenCatalogIsScraped ==
    catalogFile.kind = "json" =>
        catalogFile.value
          = ScrapedCatalog(catalogFile.value.metadata.scrapedAt - Len(allComponents))

\* C5: in the catalog written by generateCatalog, also after a run in which
\* saving a component failed, metadata.totalComponents is the number of keys
\* of components, and every name in a list of categories is a key of
\* components.
C5_CatalogCount ==
    catalogFile.kind = "json" =>
        LET catalog == catalogFile.value
            keys == KeySet(catalog.components)
        IN  /\ catalog.metadata.totalComponents = Cardinality(keys)
            /\ \A i \in 1..Len(catalog.categories) :
                 \A j \in 1..Len(catalog.categories[i][2]) :
                    catalog.categories[i][2][j].name \in keys

\* a finished run in which the save of one component failed
C5_Witness ==
    /\ pc = "done"
    /\ runs = 1
    /\ faults = 1
    /\ Len(componentFiles) < Len(components)
    /\ catalogFile.kind = "json"
    /\ catalogFile.value.metadata.totalComponents = Len(allComponents)

WithoutTimestamp(record) == [record EXCEPT !.lastUpdated = 0]

CategoryLists(catalog) ==
    [i \in 1..Len(catalog.categories) |->
        <<catalog.categories[i][1],
          [j \in 1..Len(catalog.categories[i][2]) |->
              WithoutTimestamp(catalog.categories[i][2][j])]>>]

\* C10: two scraper runs in succession write catalogs with the same key set
\* of components, the same lists of categories and, for every component,
\* the same value in every field but the timestamps lastUpdated (and
\* scrapedAt of the metadata).
C10_IdempotentRegeneration ==
    (catalogFile.kind = "json" /\ superseded.kind = "json") =>
        LET old == superseded.value
            new == catalogFile.value
            Entries(catalog) ==
                {<<e[1], WithoutTimestamp(e[2])>> : e \in Range(catalog.components)}
        IN  /\ KeySet(new.components) = KeySet(old.components)
            /\ Entries(new) = Entries(old)
            /\ CategoryLists(new) = CategoryLists(old)
            /\ [new.metadata EXCEPT !.scrapedAt = 0]
                 = [old.metadata EXCEPT !.scrapedAt = 0]

\* the second run has written its catalog over that of the first, and the
\* two differ (in their timestamps)
C10_Witness ==
    /\ pc = "done"
    /\ runs = 2
    /\ catalogFile.kind = "json"
    /\ superseded.kind = "json"
    /\ catalogFile # superseded
    /\ Get(catalogFile.value.components, "button").lastUpdated
         # Get(superseded.value.components, "button").lastUpdated

\* the positions of the trace at which a step of the kind stands, in order
StepsOf(kind) ==
    LET isKind(i) == trace[i][1] = kind
    IN  SelectSeq([i \in 1..Len(trace) |-> i], isKind)

\* the names on which the current process took a step of the kind
NamesOf(kind) == {trace[i][2] : i \in Range(StepsOf(kind))}

\* the current process has written catalog.json
CatalogWritten == pc \in {"types", "guide", "search", "done"}

\* C11: when the fetch or the save of a component fails, the error is
\* logged, the component is skipped (it is neither in this.components nor in
\* components or categories of the catalog the run writes), the run is not
\* aborted, and every remaining component of the taxonomy is processed.
C11_ErrorContainment ==
    LET errored == NamesOf("error")
    IN  /\ \A name \in errored :
              /\ ~Has(components, name)
              /\ CatalogWritten =>
                   LET catalog == catalogFile.value
                   IN  /\ ~Has(catalog.components, name)
                       /\ \A i \in 1..Len(catalog.categories) :
                            \A j \in 1..Len(catalog.categories[i][2]) :
                               catalog.categories[i][2][j].name # name
        /\ (trace # <<>> /\ trace[Len(trace)][1] = "error") => pc \in {"scrape", "catalog"}
        /\ pc = "catalog" => NamesOf("process") = Range(allComponents)

\* what does hold of a component whose save failed: the error is logged
\* after the record was stored, the record stays in this.components and goes
\* into the catalog, the loop goes on and visits every remaining name, and
\* the run has written no file for the component
SaveFailureKeepsRecord ==
    LET errored == NamesOf("error")
    IN  /\ \A name \in errored :
              /\ Has(components, name)
              /\ name \notin NamesOf("save")
              /\ CatalogWritten => Has(catalogFile.value.components, name)
        /\ (trace # <<>> /\ trace[Len(trace)][1] = "error") => pc \in {"scrape", "catalog"}
        /\ pc = "catalog" => NamesOf("process") = Range(allComponents)

\* the names the taxonomy declares
DeclaredNames == UNION {Range(COMPONENT_CATEGORIES[i][2]) : i \in 1..Len(COMPONENT_CATEGORIES)}

\* where a name is first declared: its category, then its place in the list
FirstPlace ==
    [name \in DeclaredNames |->
        LET places == {<<i, j>> \in (1..Len(COMPONENT_CATEGORIES)) \X (1..Cardinality(DeclaredNames)) :
                          /\ j <= Len(COMPONENT_CATEGORIES[i][2])
                          /\ COMPONENT_CATEGORIES[i][2][j] = name}
        IN  CHOOSE p \in places :
                \A q \in places : p[1] < q[1] \/ (p[1] = q[1] /\ p[2] <= q[2])]

\* the number of names first declared before the name
Rank ==
    [name \in DeclaredNames |->
        Cardinality({m \in DeclaredNames :
            \/ FirstPlace[m][1] < FirstPlace[name][1]
            \/ FirstPlace[m][1] = FirstPlace[name][1] /\ FirstPlace[m][2] < FirstPlace[name][2]})]

\* the declaration order: categories as declared, members as declared, a
\* name at its first occurrence only
DeclarationOrder ==
    [k \in 1..Cardinality(DeclaredNames) |-> CHOOSE name \in DeclaredNames : Rank[name] = k - 1]

\* the steps of a run in the order claimed: both directories, then the
\* names in declaration order, each logged, fetched, stored and saved, then
\* catalog.json, types.ts, README.md and search.ts
ClaimedSteps ==
    LET perName == [k \in 1..Len(DeclarationOrder) |->
                      <<Step("process", DeclarationOrder[k]),
                        Step("fetch", DeclarationOrder[k]),
                        Step("set", DeclarationOrder[k]),
                        Step("save", DeclarationOrder[k])>>]
    IN  <<Step("mkdir", outputDir), Step("mkdir", componentsDir)>>
          \o Flatten(perName)
          \o <<Step("write", "catalog.json"), Step("write", "types.ts"),
               Step("write", "README.md"), Step("write", "search.ts")>>

\* step i of the steps t is the step the claimed order has at that place; or
\* it is, at the place of a save, the logged failure of that save; or it is
\* the exit of a failed run, after which nothing follows
InClaimedOrder(t, i) ==
    \/ /\ i <= Len(ClaimedSteps)
       /\ \/ t[i] = ClaimedSteps[i]
          \/ /\ t[i][1] = "error"
             /\ ClaimedSteps[i] = Step("save", t[i][2])
    \/ /\ t[i] = Step("exit", "1")
       /\ i = Len(t)

----------------------------------------------------------------------------
(* Properties of the pure functions, under SpecPure                        *)

\* the categories whose member list holds the name
Owners(name) ==
    {i \in 1..Len(COMPONENT_CATEGORIES) : name \in Range(COMPONENT_CATEGORIES[i][2])}

\* C8: for a name in the member list of a category, getCategoryForComponent
\* returns that category (so each name of the taxonomy belongs to exactly
\* one category); for a name in no list it returns "misc".
C8_TaxonomyCompleteness ==
    (call.fn = "getCategoryForComponent" /\ call.done) =>
        /\ \A i \in Owners(call.arg) : call.result = COMPONENT_CATEGORIES[i][1]
        /\ Owners(call.arg) = {} => call.result = "misc"

C8_Witness ==
    /\ call.fn = "getCategoryForComponent"
    /\ call.done
    /\ call.arg = "form-control"
    /\ call.result = "forms"

\* the rules as claimed, in their order: the substrings of which one must
\* occur in the url (or the url the rule asks to equal), and the priority
\* (in tenths) and frequency the rule sets
ClaimedRules == <<
    [contains |-> {"/projects/"},          equals |-> {}, priority |-> 9,  changefreq |-> "weekly"],
    [contains |-> {"/blog/"},              equals |-> {}, priority |-> 8,  changefreq |-> "weekly"],
    [contains |-> {}, equals |-> {"https://nextworkmarketing.com/"},
                                                          priority |-> 10, changefreq |-> "daily"],
    [contains |-> {"/about", "/careers"},  equals |-> {}, priority |-> 6,  changefreq |-> "monthly"],
    [contains |-> {"/privacy", "/terms"},  equals |-> {}, priority |-> 3,  changefreq |-> "yearly"] >>

RuleApplies(rule, url) ==
    \/ \E sub \in rule.contains : IsSubstring(sub, url)
    \/ url \in rule.equals

\* C9: serialize applies exactly one rule, the first that matches in the
\* order /projects/, /blog/, the bare root, /about or /careers, /privacy or
\* /terms; a url that matches none keeps priority 0.7 and frequency weekly.
C9_SitemapPrecedence ==
    (call.fn = "serialize" /\ call.done) =>
        LET url == call.arg.url
            matching == {i \in 1..Len(ClaimedRules) : RuleApplies(ClaimedRules[i], url)}
        IN  /\ call.result.url = url
            /\ matching # {} =>
                 LET first == CHOOSE i \in matching : \A j \in matching : i <= j
                 IN  /\ call.result.priority = ClaimedRules[first].priority
                     /\ call.result.changefreq = ClaimedRules[first].changefreq
            /\ matching = {} =>
                 /\ call.result.priority = 7
                 /\ call.result.changefreq = "weekly"

\* a url with both "/projects/" and "/blog/", the latter first
C9_Witness ==
    /\ call.fn = "serialize"
    /\ call.done
    /\ call.arg.url = "https://nextworkmarketing.com/blog//projects/"
    /\ call.result.priority = 9

=============================================================================
